---- MODULE Spec2Model ----
(***************************************************************************)
(* Model of the SMBIOS decoder of aspia (source/base/devices/smbios.cc):   *)
(* SMBios::Create, GetTableCount, GetTable, Table::GetString and the typed *)
(* views BiosTable, SystemTable and BaseboardTable.                        *)
(*                                                                         *)
(* A byte is a number 0..255.  Memory is a sequence of bytes; the byte at  *)
(* C offset i is mem[i + 1].  A read past the end of the modelled memory   *)
(* is a fault (an unmapped page); a read inside the memory but past the    *)
(* caller's buffer (data_size) returns whatever lies there.                *)
(*                                                                         *)
(* The two walks are also modelled one loop iteration at a time (iter),    *)
(* and the Windows service of source/base/service_impl_win.cc as three     *)
(* threads that run the instructions of serviceMain, serviceControlHandler *)
(* and customEvent one at a time.                                          *)
(***************************************************************************)
EXTENDS Integers, Sequences, FiniteSets, TLC

VARIABLES
    structs,     \* the structures the blob was assembled from (input bookkeeping)
    mem,         \* bytes at smbios_table_data and after it
    phase,       \* "build" | "ready" | "failed" | "crashed"
    has_data,    \* Create's argument data is not null
    data_size,   \* Create's argument data_size
    length,      \* SMBiosData::length as read by Create and GetTable
    smbios,      \* the SMBios object Create returned, or NoSMBios
    lookup,      \* the last GetTable call and its outcome, or NoLookup
    table,       \* a located structure as a typed view sees it, or NoTable
    call,        \* the last accessor call on the view and its outcome, or NoCall
    iter,        \* the walk in progress, one record per loop iteration, or NoIter
    prog,        \* per thread: the instructions of the function it is running
    pc,          \* per thread: the index in prog of its next instruction
    blocked,     \* per thread: "no" | "waiting" | "woken" inside event_condition.wait
    event,       \* per thread: the event it posted (application: the event it handles)
    event_lock,  \* ServiceHandler::event_lock: "free" or the thread that holds it
    event_processed,            \* ServiceHandler::event_processed
    posted,                     \* the application's queue of posted events
    create_app_start_semaphore, \* ServiceHandler::create_app_start_semaphore
    create_app_end_semaphore,   \* ServiceHandler::create_app_end_semaphore
    status_handle_,             \* ServiceHandler::status_handle_ is not null
    status_,                    \* ServiceHandler::status_.dwCurrentState as last reported
    app,         \* where ServiceImpl::exec is
    quit,        \* QCoreApplication::quit was called
    done,        \* the events whose ServiceImpl callback has returned
    controls     \* the number of control codes the dispatcher has delivered

walk_vars == <<structs, mem, phase, has_data, data_size, length, smbios, lookup>>

view_vars == <<table, call>>

iter_vars == <<iter>>

service_vars ==
    <<prog, pc, blocked, event, event_lock, event_processed, posted,
      create_app_start_semaphore, create_app_end_semaphore,
      status_handle_, status_, app, quit, done, controls>>

vars == <<walk_vars, view_vars, iter_vars, service_vars>>

----------------------------------------------------------------------------
(* Bounds of the model *)

MaxStructs == 3

MaxStrings == 3

----------------------------------------------------------------------------
(* Layout constants declared in base/devices/smbios.h *)

HeaderSize == 8

TABLE_TYPE_BIOS == 0

TABLE_TYPE_SYSTEM == 1

TABLE_TYPE_BASEBOARD == 2

TABLE_TYPE_END_OF_TABLE == 127

----------------------------------------------------------------------------
(* Input blobs: a structure is a 4-byte header (type, declared length,     *)
(* 2-byte handle), the rest of the formatted area, then its strings, each  *)
(* null-terminated, and a closing null (two when there are no strings).    *)

RECURSIVE Flatten(_)
Flatten(strs) ==
    IF strs = <<>> THEN <<>>
    ELSE Head(strs) \o <<0>> \o Flatten(Tail(strs))

Serialize(s) ==
    <<s.type, s.len, s.handle, 0>>
        \o [i \in 1..(IF s.len > 4 THEN s.len - 4 ELSE 0) |-> 0]
        \o Flatten(s.strs)
        \o (IF s.strs = <<>> THEN <<0, 0>> ELSE <<0>>)

TableTypes == {TABLE_TYPE_BIOS, TABLE_TYPE_SYSTEM, TABLE_TYPE_END_OF_TABLE}

\* Declared length, handle byte and strings of the structures blobs are
\* assembled from; a declared length below 4 makes the structure malformed.
Shapes ==
    {[len |-> 4, handle |-> 0, strs |-> <<>>],
     [len |-> 4, handle |-> 0, strs |-> << <<65>> >>],
     [len |-> 5, handle |-> 0, strs |-> << <<65>>, <<66, 67>> >>],
     [len |-> 3, handle |-> 1, strs |-> <<>>]}

StructKinds ==
    {[type |-> t, len |-> sh.len, handle |-> sh.handle, strs |-> sh.strs] :
        t \in TableTypes, sh \in Shapes}

----------------------------------------------------------------------------
(* SMBios::GetTableCount *)

RECURSIVE CountScan_SingleNull(_, _, _)
CountScan_SingleNull(m, end, pos) ==
    IF pos + 1 >= Len(m) THEN [fault |-> TRUE, pos |-> pos]
    ELSE IF m[pos + 1] # 0 /\ pos < end
         THEN CountScan_SingleNull(m, end, pos + 1)
         ELSE [fault |-> FALSE, pos |-> pos]

\* while (*reinterpret_cast<const uint16_t*>(pos) != 0 && pos < end) ++pos;
RECURSIVE CountScan(_, _, _)
CountScan(m, end, pos) ==
    IF pos + 1 >= Len(m) THEN [fault |-> TRUE, pos |-> pos]
    ELSE IF (m[pos + 1] # 0 \/ m[pos + 2] # 0) /\ pos < end
         THEN CountScan(m, end, pos + 1)
         ELSE [fault |-> FALSE, pos |-> pos]

RECURSIVE CountLoop(_, _, _, _, _)
CountLoop(m, end, pos, count, hi) ==
    IF ~(pos < end) THEN [fault |-> FALSE, count |-> count, hi |-> hi]
    ELSE IF pos + 1 >= Len(m) THEN [fault |-> TRUE, count |-> count, hi |-> hi]
    ELSE LET sc == CountScan(m, end, pos + m[pos + 2])
         IN  IF sc.fault THEN [fault |-> TRUE, count |-> count, hi |-> hi]
             ELSE CountLoop(m, end, sc.pos + 2, count + 1, sc.pos + 1)

\* count: the number of structures; hi: the highest offset read (-1: none);
\* fault: the walk read unmapped memory.
GetTableCount(table_data, len) == CountLoop(table_data, len, 0, 0, -1)

----------------------------------------------------------------------------
(* SMBios::GetTable *)

RECURSIVE NextScan_SingleNull(_, _, _)
NextScan_SingleNull(m, len, next) ==
    IF next + 1 < len
    THEN IF next + 1 >= Len(m) THEN -1
         ELSE IF m[next + 1] # 0
              THEN NextScan_SingleNull(m, len, next + 1)
              ELSE next
    ELSE next

\* while (next - start + 1 < smbios->length && (next[0] != 0 || next[1] != 0)) ++next;
RECURSIVE NextScan(_, _, _)
NextScan(m, len, next) ==
    IF next + 1 < len
    THEN IF next + 1 >= Len(m) THEN -1
         ELSE IF m[next + 1] # 0 \/ m[next + 2] # 0
              THEN NextScan(m, len, next + 1)
              ELSE next
    ELSE next

\* The code after the loop: the two consistency warnings, then return nullptr.
NotFound(len, table_count, pos, table_index, malformed) ==
    [found |-> FALSE, offset |-> -1, fault |-> FALSE, malformed |-> malformed,
     visited |-> table_index, pos |-> pos,
     count_warning |-> (table_index + 1 # table_count),
     size_warning |-> (pos # len)]

Crashed == [found |-> FALSE, offset |-> -1, fault |-> TRUE, malformed |-> FALSE,
            visited |-> 0, pos |-> 0,
            count_warning |-> FALSE, size_warning |-> FALSE]

\* What the loop body decides at the structure at pos, before it looks for
\* the next one: the length check, then the type match, then the end marker.
VisitTable_MatchFirst(m, type, pos) ==
    LET table_type == m[pos + 1]
        table_length == m[pos + 2]
    IN  IF table_type = type THEN "match"
        ELSE IF table_length < 4 THEN "malformed"
        ELSE IF table_type = TABLE_TYPE_END_OF_TABLE THEN "end"
        ELSE "next"

VisitTable(m, type, pos) ==
    LET table_type == m[pos + 1]
        table_length == m[pos + 2]
    IN  IF table_length < 4 THEN "malformed"
        ELSE IF table_type = type THEN "match"
        ELSE IF table_type = TABLE_TYPE_END_OF_TABLE THEN "end"
        ELSE "next"

RECURSIVE TableLoop(_, _, _, _, _, _)
TableLoop(m, len, table_count, type, pos, table_index) ==
    IF table_index < table_count /\ pos + 4 <= len
    THEN IF pos + 1 >= Len(m) THEN Crashed
         ELSE LET visit == VisitTable(m, type, pos)
              IN  IF visit = "malformed"
                  THEN NotFound(len, table_count, pos, table_index, TRUE)
                  ELSE IF visit = "match"
                  THEN [found |-> TRUE, offset |-> pos, fault |-> FALSE,
                        malformed |-> FALSE, visited |-> table_index, pos |-> pos,
                        count_warning |-> FALSE, size_warning |-> FALSE]
                  ELSE IF visit = "end"
                  THEN NotFound(len, table_count, pos, table_index, FALSE)
                  ELSE LET next == NextScan(m, len, pos + m[pos + 2])
                       IN  IF next < 0 THEN Crashed
                           ELSE TableLoop(m, len, table_count, type,
                                          next + 2, table_index + 1)
    ELSE NotFound(len, table_count, pos, table_index, FALSE)

GetTable(m, len, table_count, type) == TableLoop(m, len, table_count, type, 0, 0)

----------------------------------------------------------------------------
(* The state machine: assemble a blob, Create, then look tables up. *)

NoSMBios == [valid |-> FALSE, data_size |-> 0, table_count |-> 0]

NoLookup == [type |-> -1, res |-> Crashed]

NoTable == [data |-> <<>>, buf |-> 0, major |-> 0, minor |-> 0, strs |-> <<>>, cut |-> 0]

NoCall == [fn |-> "none", offset |-> 0]

\* No walk in progress.
NoIter == [fn |-> "none", state |-> "idle", type |-> -1, table_count |-> 0,
           pos |-> 0, n |-> 0, found |-> FALSE]

Threads == {"main", "ctrl", "app"}

NoEvent == [type |-> "none", id |-> 0]

\* The service before ServiceImpl::exec starts the handler thread.
ServiceInit ==
    /\ prog = [t \in Threads |-> <<>>]
    /\ pc = [t \in Threads |-> 1]
    /\ blocked = [t \in Threads |-> "no"]
    /\ event = [t \in Threads |-> NoEvent]
    /\ event_lock = "free"
    /\ event_processed = FALSE
    /\ posted = <<>>
    /\ create_app_start_semaphore = 0
    /\ create_app_end_semaphore = 0
    /\ status_handle_ = FALSE
    /\ status_ = "none"
    /\ app = "tryAcquire"
    /\ quit = FALSE
    /\ done = {}
    /\ controls = 0

Init ==
    /\ structs = <<>>
    /\ mem = <<>>
    /\ phase = "build"
    /\ has_data = FALSE
    /\ data_size = 0
    /\ length = 0
    /\ smbios = NoSMBios
    /\ lookup = NoLookup
    /\ table = NoTable
    /\ call = NoCall
    /\ iter = NoIter
    /\ ServiceInit

AppendStruct(s) ==
    /\ phase = "build"
    /\ Len(structs) < MaxStructs
    /\ structs' = Append(structs, s)
    /\ mem' = mem \o Serialize(s)
    /\ UNCHANGED <<phase, has_data, data_size, length, smbios, lookup, view_vars, iter_vars, service_vars>>

\* The buffer sizes and region lengths a caller may hand to Create for the
\* assembled memory: the exact ones, and ones that cut the blob short.
CreateInputs ==
    {[data |-> TRUE, size |-> HeaderSize + Len(mem) - c.s, len |-> Len(mem) - c.l] :
        c \in {x \in [s : 0..2, l : 0..2] : x.s <= Len(mem) /\ x.l <= Len(mem)}}
    \cup {[data |-> FALSE, size |-> 0, len |-> 0],
          [data |-> TRUE, size |-> 0, len |-> 0],
          [data |-> TRUE, size |-> HeaderSize - 1, len |-> Len(mem)]}

\* SMBios::Create on the arguments (data, data_size), with the header's length
\* field reading len: what the call ends as, and the object it returns.
CreateResult_KeepEmpty(data, size, m, len) ==
    IF ~data \/ size = 0
    THEN [phase |-> "failed", smbios |-> NoSMBios]
    ELSE LET c == GetTableCount(m, len)
         IN  IF c.fault
             THEN [phase |-> "crashed", smbios |-> NoSMBios]
             ELSE [phase |-> "ready",
                   smbios |-> [valid |-> TRUE, data_size |-> size,
                               table_count |-> c.count]]

CreateResult(data, size, m, len) ==
    IF ~data \/ size = 0
    THEN [phase |-> "failed", smbios |-> NoSMBios]
    ELSE LET c == GetTableCount(m, len)
         IN  IF c.fault
             THEN [phase |-> "crashed", smbios |-> NoSMBios]
             ELSE IF c.count = 0
             THEN [phase |-> "failed", smbios |-> NoSMBios]
             ELSE [phase |-> "ready",
                   smbios |-> [valid |-> TRUE, data_size |-> size,
                               table_count |-> c.count]]

Create(in) ==
    /\ phase = "build"
    /\ has_data' = in.data
    /\ data_size' = in.size
    /\ length' = in.len
    /\ LET r == CreateResult(in.data, in.size, mem, in.len)
       IN  /\ phase' = r.phase
           /\ smbios' = r.smbios
    /\ UNCHANGED <<structs, mem, lookup, view_vars, iter_vars, service_vars>>

Lookup(type) ==
    /\ phase = "ready"
    /\ lookup' = [type |-> type,
                  res |-> GetTable(mem, length, smbios.table_count, type)]
    /\ UNCHANGED <<structs, mem, phase, has_data, data_size, length, smbios, view_vars, iter_vars, service_vars>>

Next ==
    \/ \E s \in StructKinds : AppendStruct(s)
    \/ \E in \in CreateInputs : Create(in)
    \/ \E type \in TableTypes : Lookup(type)

Spec == Init /\ [][Next]_vars

----------------------------------------------------------------------------
(* SMBios::Table: the accessors of a located structure.  m is the memory    *)
(* from data_ on.  An accessor's outcome is its value, the offsets it read  *)
(* through GetByte / GetPointer (fields), the highest offset it read at all *)
(* (hi) and whether it read unmapped memory (fault).  Text is a sequence:   *)
(* the bytes of a string of the blob, or the pieces of a formatted or       *)
(* constant text; the empty std::string is <<>>.                            *)

Max(S) == CHOOSE x \in S : \A y \in S : x >= y

Outcome(val, fields, last) ==
    [val |-> val, fields |-> fields, hi |-> Max(fields \cup {last}), fault |-> FALSE]

Fault(m, fields) ==
    [val |-> <<>>, fields |-> fields, hi |-> Len(m), fault |-> TRUE]

Readable(m, offsets) == \A o \in offsets : o < Len(m)

\* GetByte(offset)
GetByte(m, offset) == m[offset + 1]

\* strlen(string): the offset of the first null byte at or after string, or
\* -1 when the scan leaves the memory.
RECURSIVE StrEnd(_, _)
StrEnd(m, string) ==
    IF string >= Len(m) THEN -1
    ELSE IF m[string + 1] = 0 THEN string
    ELSE StrEnd(m, string + 1)

RECURSIVE SkipStrings_OffByOne(_, _, _)
SkipStrings_OffByOne(m, string, handle) ==
    IF handle > 0
    THEN IF string >= Len(m) THEN -1
         ELSE IF m[string + 1] # 0
              THEN LET e == StrEnd(m, string)
                   IN  IF e < 0 THEN -1 ELSE SkipStrings_OffByOne(m, e + 1, handle - 1)
              ELSE string
    ELSE string

\* while (handle > 1 && *string) { string += strlen(string); ++string; --handle; }
RECURSIVE SkipStrings(_, _, _)
SkipStrings(m, string, handle) ==
    IF handle > 1
    THEN IF string >= Len(m) THEN -1
         ELSE IF m[string + 1] # 0
              THEN LET e == StrEnd(m, string)
                   IN  IF e < 0 THEN -1 ELSE SkipStrings(m, e + 1, handle - 1)
              ELSE string
    ELSE string

GetString(m, offset) ==
    IF ~Readable(m, {offset}) THEN Fault(m, {offset})
    ELSE LET handle == GetByte(m, offset)
         IN  IF handle = 0 THEN Outcome(<<>>, {offset}, offset)
             ELSE LET string == SkipStrings(m, m[2], handle)
                  IN  IF string < 0 \/ string >= Len(m) THEN Fault(m, {offset})
                      ELSE IF m[string + 1] = 0
                      THEN Outcome(<<>>, {offset}, string)
                      ELSE LET e == StrEnd(m, string)
                           IN  IF e < 0 THEN Fault(m, {offset})
                               ELSE Outcome(SubSeq(m, string + 1, e), {offset}, e)

----------------------------------------------------------------------------
(* Text formatting (StringPrintf) *)

Digits == <<"0", "1", "2", "3", "4", "5", "6", "7", "8", "9",
            "A", "B", "C", "D", "E", "F">>

\* "%u"
RECURSIVE FormatUnsigned(_)
FormatUnsigned(n) ==
    IF n < 10 THEN <<Digits[n + 1]>>
    ELSE FormatUnsigned(n \div 10) \o <<Digits[(n % 10) + 1]>>

\* "%02X" of a byte
FormatHexByte(b) == <<Digits[(b \div 16) + 1], Digits[(b % 16) + 1]>>

\* Bit i of the little-endian integer stored at offset: GetByte / GetQword
\* and the test (value & (1 << i)).
BitAt(m, offset, i) == (m[offset + (i \div 8) + 1] \div (2 ^ (i % 8))) % 2

\* The (name, is_supported) pairs of bits first..last of the integer at offset.
FeatureBits(m, offset, names, first, last) ==
    [k \in 1..(last - first + 1) |->
        [name |-> names[k], supported |-> BitAt(m, offset, first + k - 1) = 1]]

----------------------------------------------------------------------------
(* SMBios::BiosTable *)

\* GetBiosRevision (offsets 0x14, 0x15) and GetFirmwareRevision (0x16, 0x17)
GetRevision(m, major_offset, minor_offset) ==
    LET fields == {major_offset, minor_offset}
    IN  IF ~Readable(m, fields) THEN Fault(m, fields)
        ELSE LET major == GetByte(m, major_offset)
                 minor == GetByte(m, minor_offset)
             IN  IF major # 255 /\ minor # 255
                 THEN Outcome(FormatUnsigned(major) \o <<".">> \o FormatUnsigned(minor),
                              fields, 0)
                 ELSE Outcome(<<>>, fields, 0)

GetBiosRevision(m) == GetRevision(m, 20, 21)

GetFirmwareRevision(m) == GetRevision(m, 22, 23)

characteristics_names ==
    <<"BIOS characteristics not supported",
      "ISA",
      "MCA",
      "EISA",
      "PCI",
      "PC Card (PCMCIA)",
      "PNP",
      "APM",
      "BIOS is upgradeable",
      "BIOS shadowing",
      "VLB",
      "ESCD",
      "Boot from CD",
      "Selectable boot",
      "BIOS ROM is socketed",
      "Boot from PC Card (PCMCIA)",
      "EDD",
      "Japanese floppy for NEC 9800 1.2 MB (int 13h)",
      "Japanese floppy for Toshiba 1.2 MB (int 13h)",
      "5.25\"/360 kB floppy (int 13h)",
      "5.25\"/1.2 MB floppy (int 13h)",
      "3.5\"/720 kB floppy (int 13h)",
      "3.5\"/2.88 MB floppy (int 13h)",
      "Print screen (int 5h)",
      "8042 keyboard (int 9h)",
      "Serial (int 14h)",
      "Printer (int 17h)",
      "CGA/mono video (int 10h)",
      "NEC PC-98">>

characteristics1_names ==
    <<"ACPI", "USB legacy", "AGP", "I2O boot", "LS-120 boot",
      "ATAPI Zip drive boot", "IEEE 1394 boot", "Smart battery">>

characteristics2_names ==
    <<"BIOS boot specification", "Function key-initiated network boot",
      "Targeted content distribution">>

\* characteristics_names[i - 3], for the loop variable i = 4..31 (the C array
\* is 0-based, the sequence above 1-based).
CharacteristicName_OffByOne(i) == characteristics_names[(i - 4) + 1]

CharacteristicName(i) == characteristics_names[(i - 3) + 1]

\* The first block of GetCharacteristics: nothing when bit 3 of the qword at
\* 0x0A is set, else the pairs of bits 4..31.
MainCharacteristics(m) ==
    IF BitAt(m, 10, 3) = 0
    THEN [k \in 1..28 |-> [name |-> CharacteristicName(k + 3),
                           supported |-> BitAt(m, 10, k + 3) = 1]]
    ELSE <<>>

GetCharacteristics(m) ==
    LET table_length == GetByte(m, 1)
        fields == (10..17) \cup {1}
                     \cup (IF table_length >= 19 THEN {18} ELSE {})
                     \cup (IF table_length >= 20 THEN {19} ELSE {})
    IN  IF ~Readable(m, fields) THEN Fault(m, fields)
        ELSE Outcome(MainCharacteristics(m)
                       \o (IF table_length >= 19
                           THEN FeatureBits(m, 18, characteristics1_names, 0, 7)
                           ELSE <<>>)
                       \o (IF table_length >= 20
                           THEN FeatureBits(m, 19, characteristics2_names, 0, 2)
                           ELSE <<>>),
                     fields, 0)

----------------------------------------------------------------------------
(* SMBios::SystemTable *)

\* for (int i = 0; i < 16 && (only_0x00 || only_0xFF); ++i) ...
RECURSIVE UUIDScan(_, _, _, _)
UUIDScan(m, i, only_0x00, only_0xFF) ==
    IF i < 16 /\ (only_0x00 \/ only_0xFF)
    THEN UUIDScan(m, i + 1,
                  only_0x00 /\ m[8 + i + 1] = 0,
                  only_0xFF /\ m[8 + i + 1] = 255)
    ELSE only_0xFF \/ only_0x00

\* The indexes into ptr in the order StringPrintf is given them.
UUIDByteOrder_RawBelow0207(major_version, minor_version) ==
    IF (major_version * 256) + minor_version > 518
    THEN <<3, 2, 1, 0, 5, 4, 7, 6, 8, 9, 10, 11, 12, 13, 14, 15>>
    ELSE <<0, 1, 2, 3, 4, 5, 6, 7, 8, 9, 10, 11, 12, 13, 14, 15>>

UUIDByteOrder(major_version, minor_version) ==
    IF (major_version * 256) + minor_version >= 518
    THEN <<3, 2, 1, 0, 5, 4, 7, 6, 8, 9, 10, 11, 12, 13, 14, 15>>
    ELSE <<0, 1, 2, 3, 4, 5, 6, 7, 8, 9, 10, 11, 12, 13, 14, 15>>

\* "%02X%02X%02X%02X-%02X%02X-%02X%02X-%02X%02X-%02X%02X%02X%02X%02X%02X"
RECURSIVE FormatUUID(_, _, _)
FormatUUID(m, order, k) ==
    IF k > 16 THEN <<>>
    ELSE FormatHexByte(m[8 + order[k] + 1])
            \o (IF k \in {4, 6, 8, 10} THEN <<"-">> ELSE <<>>)
            \o FormatUUID(m, order, k + 1)

GetUUID(m, major_version, minor_version) ==
    IF ~Readable(m, {1}) THEN Fault(m, {1})
    ELSE IF GetByte(m, 1) < 25 THEN Outcome(<<>>, {1}, 0)
    ELSE LET fields == {1} \cup (8..23)
         IN  IF ~Readable(m, fields) THEN Fault(m, fields)
             ELSE IF UUIDScan(m, 0, TRUE, TRUE) THEN Outcome(<<>>, fields, 0)
             ELSE Outcome(FormatUUID(m, UUIDByteOrder(major_version, minor_version), 1),
                          fields, 0)

wakeup_names ==
    <<"Other", "Unknown", "APM Timer", "Modem Ring", "LAN Remote",
      "Power Switch", "PCI PME#", "AC Power Restored">>

GetWakeupType(m) ==
    IF ~Readable(m, {1}) THEN Fault(m, {1})
    ELSE IF GetByte(m, 1) < 25 THEN Outcome(<<>>, {1}, 0)
    ELSE IF ~Readable(m, {24}) THEN Fault(m, {1, 24})
    ELSE LET code == GetByte(m, 24)
         IN  IF code \in 1..8 THEN Outcome(<<wakeup_names[code]>>, {1, 24}, 0)
             ELSE Outcome(<<>>, {1, 24}, 0)

\* if (table_length < min_length) return std::string(); return GetString(offset);
GatedString(m, min_length, offset) ==
    IF ~Readable(m, {1}) THEN Fault(m, {1})
    ELSE IF GetByte(m, 1) < min_length THEN Outcome(<<>>, {1}, 0)
    ELSE LET r == GetString(m, offset)
         IN  [r EXCEPT !.fields = @ \cup {1}]

GetSKUNumber(m) == GatedString(m, 27, 25)

GetFamily(m) == GatedString(m, 27, 26)

----------------------------------------------------------------------------
(* SMBios::BaseboardTable *)

GetAssetTag(m) == GatedString(m, 9, 8)

feature_names ==
    <<"Board is a hosting board",
      "Board requires at least one daughter board",
      "Board is removable",
      "Board is replaceable",
      "Board is hot swappable">>

GetFeatures_FourBits(m) ==
    IF ~Readable(m, {1}) THEN Fault(m, {1})
    ELSE IF GetByte(m, 1) < 10 THEN Outcome(<<>>, {1}, 0)
    ELSE IF ~Readable(m, {9}) THEN Fault(m, {1, 9})
    ELSE IF GetByte(m, 9) % 32 = 0 THEN Outcome(<<>>, {1, 9}, 0)
    ELSE Outcome(FeatureBits(m, 9, feature_names, 0, 3), {1, 9}, 0)

GetFeatures(m) ==
    IF ~Readable(m, {1}) THEN Fault(m, {1})
    ELSE IF GetByte(m, 1) < 10 THEN Outcome(<<>>, {1}, 0)
    ELSE IF ~Readable(m, {9}) THEN Fault(m, {1, 9})
    ELSE IF GetByte(m, 9) % 32 = 0 THEN Outcome(<<>>, {1, 9}, 0)
    ELSE Outcome(FeatureBits(m, 9, feature_names, 0, 4), {1, 9}, 0)

GetLocationInChassis(m) == GatedString(m, 14, 10)

type_names ==
    <<"Unknown", "Other", "Server Blade", "Connectivity Switch",
      "System Management Module", "Processor Module", "I/O Module",
      "Memory Module", "Daughter Board", "Motherboard",
      "Processor+Memory Module", "Processor+I/O Module", "Interconnect Board">>

GetBoardType(m) ==
    IF ~Readable(m, {1}) THEN Fault(m, {1})
    ELSE IF GetByte(m, 1) < 14 THEN Outcome(<<>>, {1}, 0)
    ELSE IF ~Readable(m, {13}) THEN Fault(m, {1, 13})
    ELSE LET type == GetByte(m, 13)
         IN  IF type = 0 \/ type > 13 THEN Outcome(<<>>, {1, 13}, 0)
             ELSE Outcome(<<type_names[type]>>, {1, 13}, 0)

----------------------------------------------------------------------------
(* The typed views: a located structure, then accessor calls on it. *)

\* The i-th string of the string lists structures are given.
PoolString(i) == IF i % 2 = 1 THEN <<64 + i>> ELSE <<64 + i, 96 + i>>

StringList(n) == [i \in 1..n |-> PoolString(i)]

\* The formatted area: type, declared length, handle, then the byte
\* (fill + step * offset) % 256 at every offset but pos, which holds val.
FormattedArea(type, len, p) ==
    [i \in 1..len |->
        IF i = 1 THEN type
        ELSE IF i = 2 THEN len
        ELSE IF i <= 4 THEN 0
        ELSE IF i - 1 = p.pos THEN p.val
        ELSE (p.fill + p.step * (i - 1)) % 256]

\* The structure with its strings, its last cut bytes missing (the caller's
\* buffer ends there), followed by the memory behind the buffer.
MakeTable(type, len, p, strs, cut, tail, major, minor) ==
    LET whole == FormattedArea(type, len, p) \o Flatten(strs)
                    \o (IF strs = <<>> THEN <<0, 0>> ELSE <<0>>)
        kept == SubSeq(whole, 1, Len(whole) - cut)
    IN  [data |-> kept \o tail, buf |-> Len(kept),
         major |-> major, minor |-> minor, strs |-> strs, cut |-> cut]

Fills == {[fill |-> 0, step |-> 0], [fill |-> 255, step |-> 0], [fill |-> 249, step |-> 1]}

Values == {0, 1, 2, 5, 8, 13, 14, 16, 128, 255}

Patterns(len) ==
    {[fill |-> f.fill, step |-> f.step, pos |-> pos, val |-> val] :
        f \in Fills, pos \in 4..(len - 1), val \in Values}

\* What may lie behind the structure: nothing mapped, or an end-of-table
\* structure.
Tails == {<<>>, <<TABLE_TYPE_END_OF_TABLE, 4, 0, 0, 0, 0>>}

Versions == {<<2, 0>>, <<2, 5>>, <<2, 6>>, <<3, 0>>}

\* Structures whose string list and buffer end vary: the byte at 0x04 is a
\* string index k, the list has n strings, the buffer ends cut bytes early.
StringTables ==
    {MakeTable(TABLE_TYPE_BIOS, 18, [fill |-> 0, step |-> 0, pos |-> 4, val |-> k],
               StringList(n), cut, tail, 2, 0) :
        k \in 0..(MaxStrings + 1), n \in 0..MaxStrings, cut \in 0..2,
        tail \in Tails \cup {<<68>>, <<0>>}}

\* Structures whose declared length and formatted area vary.
BiosTables ==
    {MakeTable(TABLE_TYPE_BIOS, c.len, c.p, StringList(2), 0, c.tail, 2, 0) :
        c \in UNION {[len : {len}, p : Patterns(len), tail : Tails] :
                        len \in {18, 19, 20, 24}}}

SystemTables ==
    {MakeTable(TABLE_TYPE_SYSTEM, c.len, c.p, StringList(2), 0,
               <<TABLE_TYPE_END_OF_TABLE, 4, 0, 0, 0, 0>>, c.v[1], c.v[2]) :
        c \in UNION {[len : {len}, p : Patterns(len), v : Versions] :
                        len \in {8, 24, 25, 26, 27}}}

BaseboardTables ==
    {MakeTable(TABLE_TYPE_BASEBOARD, c.len, c.p, StringList(2), 0, c.tail, 2, 0) :
        c \in UNION {[len : {len}, p : Patterns(len), tail : Tails] :
                        len \in {8, 9, 10, 13, 14, 15}}}

InitView ==
    /\ structs = <<>>
    /\ mem = <<>>
    /\ phase = "build"
    /\ has_data = FALSE
    /\ data_size = 0
    /\ length = 0
    /\ smbios = NoSMBios
    /\ lookup = NoLookup
    /\ table \in StringTables \cup BiosTables \cup SystemTables \cup BaseboardTables
    /\ call = NoCall
    /\ iter = NoIter
    /\ ServiceInit

Called(type, fn, offset, res) ==
    /\ table.data[1] = type
    /\ call' = [fn |-> fn, offset |-> offset, res |-> res]
    /\ UNCHANGED <<walk_vars, table, iter_vars, service_vars>>

\* GetManufacturer (0x04), GetVersion (0x05), GetDate (0x08)
BiosGetString(offset) ==
    Called(TABLE_TYPE_BIOS, "GetString", offset, GetString(table.data, offset))

BiosGetBiosRevision ==
    Called(TABLE_TYPE_BIOS, "GetBiosRevision", 20, GetBiosRevision(table.data))

BiosGetFirmwareRevision ==
    Called(TABLE_TYPE_BIOS, "GetFirmwareRevision", 22, GetFirmwareRevision(table.data))

BiosGetCharacteristics ==
    Called(TABLE_TYPE_BIOS, "GetCharacteristics", 10, GetCharacteristics(table.data))

\* GetManufacturer (0x04), GetProductName (0x05), GetVersion (0x06),
\* GetSerialNumber (0x07)
SystemGetString(offset) ==
    Called(TABLE_TYPE_SYSTEM, "GetString", offset, GetString(table.data, offset))

SystemGetUUID ==
    Called(TABLE_TYPE_SYSTEM, "GetUUID", 8,
           GetUUID(table.data, table.major, table.minor))

SystemGetWakeupType ==
    Called(TABLE_TYPE_SYSTEM, "GetWakeupType", 24, GetWakeupType(table.data))

SystemGetSKUNumber ==
    Called(TABLE_TYPE_SYSTEM, "GetSKUNumber", 25, GetSKUNumber(table.data))

SystemGetFamily ==
    Called(TABLE_TYPE_SYSTEM, "GetFamily", 26, GetFamily(table.data))

\* GetManufacturer (0x04), GetProductName (0x05), GetVersion (0x06),
\* GetSerialNumber (0x07)
BaseboardGetString(offset) ==
    Called(TABLE_TYPE_BASEBOARD, "GetString", offset, GetString(table.data, offset))

BaseboardGetAssetTag ==
    Called(TABLE_TYPE_BASEBOARD, "GetAssetTag", 8, GetAssetTag(table.data))

BaseboardGetFeatures ==
    Called(TABLE_TYPE_BASEBOARD, "GetFeatures", 9, GetFeatures(table.data))

BaseboardGetLocationInChassis ==
    Called(TABLE_TYPE_BASEBOARD, "GetLocationInChassis", 10,
           GetLocationInChassis(table.data))

BaseboardGetBoardType ==
    Called(TABLE_TYPE_BASEBOARD, "GetBoardType", 13, GetBoardType(table.data))

NextView ==
    \/ \E offset \in {4, 5, 8} : BiosGetString(offset)
    \/ BiosGetBiosRevision
    \/ BiosGetFirmwareRevision
    \/ BiosGetCharacteristics
    \/ \E offset \in {4, 5, 6, 7} : SystemGetString(offset)
    \/ SystemGetUUID
    \/ SystemGetWakeupType
    \/ SystemGetSKUNumber
    \/ SystemGetFamily
    \/ \E offset \in {4, 5, 6, 7} : BaseboardGetString(offset)
    \/ BaseboardGetAssetTag
    \/ BaseboardGetFeatures
    \/ BaseboardGetLocationInChassis
    \/ BaseboardGetBoardType

SpecView == InitView /\ [][NextView]_vars

----------------------------------------------------------------------------
(* Facts about the assembled input, used to state the properties. *)

\* The offset of the i-th structure of ss in the serialized blob.
RECURSIVE StructOffset(_, _)
StructOffset(ss, i) ==
    IF i <= 1 THEN 0
    ELSE StructOffset(ss, i - 1) + Len(Serialize(ss[i - 1]))

\* A well-formed blob: every structure declares a length of 4 or more, the
\* last one is the end-of-table marker, and the region length is exact.
WellFormedInput ==
    /\ structs # <<>>
    /\ \A i \in 1..Len(structs) : structs[i].len >= 4
    /\ structs[Len(structs)].type = TABLE_TYPE_END_OF_TABLE
    /\ length = Len(mem)

Min(S) == CHOOSE x \in S : \A y \in S : x <= y

FirstMarker ==
    Min({i \in 1..Len(structs) : structs[i].type = TABLE_TYPE_END_OF_TABLE})

\* The structures of the given type up to and including the end marker.
Candidates(type) == {i \in 1..FirstMarker : structs[i].type = type}

Looked == phase = "ready" /\ lookup.type # -1

\* The walk for the given type meets its first malformed structure at i:
\* everything before it is well formed, is no match and is no end marker,
\* and the header of structure i lies inside the region.
MalformedAt(i, type) ==
    /\ i \in 1..Len(structs)
    /\ structs[i].len < 4
    /\ \A j \in 1..(i - 1) :
          /\ structs[j].len >= 4
          /\ structs[j].type # type
          /\ structs[j].type # TABLE_TYPE_END_OF_TABLE
    /\ StructOffset(structs, i) + 4 <= length

----------------------------------------------------------------------------
(* Properties *)

\* C1: on a well-formed blob of N structures (declared lengths >= 4, the last
\* the end-of-table marker, exact region length) GetTableCount returns N, so
\* Create succeeds and caches N.
C1_CountWellFormed ==
    (phase # "build" /\ has_data /\ data_size # 0 /\ WellFormedInput)
        => (phase = "ready" /\ smbios.table_count = Len(structs))

C1_Witness ==
    /\ phase = "ready"
    /\ WellFormedInput
    /\ Len(structs) = 3
    /\ structs[1].strs # <<>>
    /\ structs[2].len = 5
    /\ smbios.table_count = 3

\* C2: on a well-formed blob GetTable(type) returns the offset of the first
\* structure of that type at or before the end-of-table marker, and nullptr
\* when there is none there.
C2_LocateFirst ==
    (Looked /\ WellFormedInput)
        => LET c == Candidates(lookup.type)
           IN  /\ ~lookup.res.fault
               /\ lookup.res.found = (c # {})
               /\ (c # {} => lookup.res.offset = StructOffset(structs, Min(c)))

\* A match behind a structure with strings, with a second structure of the
\* same type after it.
C2_Witness ==
    /\ Looked
    /\ WellFormedInput
    /\ lookup.res.found
    /\ lookup.res.offset > 0
    /\ structs[1].strs # <<>>
    /\ lookup.type = TABLE_TYPE_END_OF_TABLE
    /\ Cardinality({i \in 1..Len(structs) : structs[i].type = lookup.type}) = 2

\* C3: when the walk of GetTable meets a structure with a declared length
\* below 4 before it has returned, it stops and returns nullptr, without a
\* fault, and the cached table count still is what GetTableCount computed.
C3_MalformedStops ==
    (Looked /\ \E i \in 1..Len(structs) : MalformedAt(i, lookup.type))
        => /\ ~lookup.res.found
           /\ ~lookup.res.fault
           /\ lookup.res.malformed
           /\ smbios.table_count = GetTableCount(mem, length).count

\* The malformed structure has the type looked for, and a well-formed
\* structure of that type follows it.
C3_Witness ==
    /\ Looked
    /\ Len(structs) = 3
    /\ MalformedAt(2, lookup.type)
    /\ structs[2].type = lookup.type
    /\ structs[3].type = lookup.type
    /\ structs[3].len >= 4
    /\ ~lookup.res.found

\* C4: Create returns no object for a null or empty buffer, none when
\* GetTableCount over the region is zero, and every object it returns caches
\* a count that is positive and equal to GetTableCount of its region.
C4_CreateChecks ==
    /\ (phase # "build" /\ (~has_data \/ data_size = 0)) => ~smbios.valid
    /\ (phase # "build" /\ GetTableCount(mem, length).count = 0) => ~smbios.valid
    /\ smbios.valid => /\ phase = "ready"
                       /\ smbios.table_count > 0
                       /\ smbios.table_count = GetTableCount(mem, length).count

\* Create refused a buffer that is there and not empty: no structures.
C4_Witness ==
    /\ phase = "failed"
    /\ has_data
    /\ data_size > 0
    /\ GetTableCount(mem, length).count = 0

\* C5: every SMBios object holds a buffer of at least the header size.
C5_BufferCoversHeader == smbios.valid => smbios.data_size >= HeaderSize

\* C6: with a properly terminated list of m strings, GetString of an index
\* byte k returns the empty string for k = 0, the k-th string for
\* 1 <= k <= m, and the empty string for k > m.
StringAccessors ==
    {"GetString", "GetSKUNumber", "GetFamily", "GetAssetTag", "GetLocationInChassis"}

\* The accessor got as far as GetString(call.offset).
ReachedGetString ==
    /\ call.fn \in StringAccessors
    /\ call.offset \in call.res.fields

IndexByte == table.data[call.offset + 1]

C6_StringByIndex ==
    (ReachedGetString /\ table.cut = 0)
        => /\ ~call.res.fault
           /\ call.res.val = IF IndexByte >= 1 /\ IndexByte <= Len(table.strs)
                             THEN table.strs[IndexByte]
                             ELSE <<>>

\* The second of three strings, which has two bytes.
C6_Witness ==
    /\ ReachedGetString
    /\ table.cut = 0
    /\ Len(table.strs) = 3
    /\ IndexByte = 2
    /\ Len(call.res.val) = 2

\* C7: GetString of an index beyond the strings there are never reads past
\* the end of the buffer and returns the empty string, also when the list is
\* cut short at the buffer end.
C7_StringStaysInBuffer ==
    (call.fn = "GetString" /\ IndexByte > Len(table.strs))
        => /\ ~call.res.fault
           /\ call.res.hi < table.buf
           /\ call.res.val = <<>>

\* C8: an accessor of an optional field whose offset the declared length does
\* not cover returns the empty value and reads no field at or past the
\* declared length.
FieldEnd ==
    [fn \in {"GetBiosRevision", "GetFirmwareRevision", "GetUUID", "GetWakeupType",
             "GetSKUNumber", "GetFamily", "GetAssetTag", "GetFeatures",
             "GetLocationInChassis", "GetBoardType"} |->
        CASE fn = "GetBiosRevision" -> 21
          [] fn = "GetFirmwareRevision" -> 23
          [] fn = "GetUUID" -> 23
          [] fn = "GetWakeupType" -> 24
          [] fn = "GetSKUNumber" -> 25
          [] fn = "GetFamily" -> 26
          [] fn = "GetAssetTag" -> 8
          [] fn = "GetFeatures" -> 9
          [] fn = "GetLocationInChassis" -> 10
          [] fn = "GetBoardType" -> 13]

DeclaredLength == table.data[2]

ReadsInsideDeclared == \A o \in call.res.fields : o < DeclaredLength

C8_OptionalFieldsGated ==
    /\ (call.fn \in DOMAIN FieldEnd /\ DeclaredLength <= FieldEnd[call.fn])
          => /\ ~call.res.fault
             /\ call.res.val = <<>>
             /\ ReadsInsideDeclared
    /\ (call.fn = "GetCharacteristics" /\ DeclaredLength <= 19)
          => /\ ~call.res.fault
             /\ ReadsInsideDeclared
             /\ Len(call.res.val) <= (IF DeclaredLength <= 18 THEN 28 ELSE 36)

\* The claim of C8 for every optional accessor but the two revisions.
C8_GatedButRevisions ==
    call.fn \notin {"GetBiosRevision", "GetFirmwareRevision"} => C8_OptionalFieldsGated

\* C9: the labels of bits 4..31 of the BIOS characteristics.
BitLabel ==
    (4 :> "ISA") @@ (5 :> "MCA") @@ (6 :> "EISA") @@ (7 :> "PCI")
    @@ (8 :> "PC Card (PCMCIA)") @@ (9 :> "PNP") @@ (10 :> "APM")
    @@ (11 :> "BIOS is upgradeable") @@ (12 :> "BIOS shadowing") @@ (13 :> "VLB")
    @@ (14 :> "ESCD") @@ (15 :> "Boot from CD") @@ (16 :> "Selectable boot")
    @@ (17 :> "BIOS ROM is socketed") @@ (18 :> "Boot from PC Card (PCMCIA)")
    @@ (19 :> "EDD")
    @@ (20 :> "Japanese floppy for NEC 9800 1.2 MB (int 13h)")
    @@ (21 :> "Japanese floppy for Toshiba 1.2 MB (int 13h)")
    @@ (22 :> "5.25\"/360 kB floppy (int 13h)")
    @@ (23 :> "5.25\"/1.2 MB floppy (int 13h)")
    @@ (24 :> "3.5\"/720 kB floppy (int 13h)")
    @@ (25 :> "3.5\"/2.88 MB floppy (int 13h)")
    @@ (26 :> "Print screen (int 5h)") @@ (27 :> "8042 keyboard (int 9h)")
    @@ (28 :> "Serial (int 14h)") @@ (29 :> "Printer (int 17h)")
    @@ (30 :> "CGA/mono video (int 10h)") @@ (31 :> "NEC PC-98")

\* Bit i of the 64-bit little-endian characteristics word at 0x0A.
CharacteristicsBit(i) == (table.data[10 + (i \div 8) + 1] \div (2 ^ (i % 8))) % 2

\* The list starts with the 28 pairs of bits 4..31, in bit order.
StartsWithBits4To31 ==
    /\ Len(call.res.val) >= 28
    /\ \A i \in 4..31 :
          call.res.val[i - 3] =
              [name |-> BitLabel[i], supported |-> CharacteristicsBit(i) = 1]

\* C9 as claimed: with bit 3 set the returned list is empty; otherwise it
\* starts with the 28 pairs of bits 4..31.
C9_CharacteristicsAsClaimed ==
    call.fn = "GetCharacteristics"
        => IF CharacteristicsBit(3) = 1
           THEN call.res.val = <<>>
           ELSE StartsWithBits4To31

\* The number of extension-flag pairs the declared length admits.
ExtensionPairs ==
    (IF DeclaredLength >= 19 THEN 8 ELSE 0) + (IF DeclaredLength >= 20 THEN 3 ELSE 0)

\* C9 (amended): with bit 3 set the list holds no pair of bits 4..31, only the
\* extension-flag pairs the declared length admits (8 from 0x13 on, 3 more
\* from 0x14 on); otherwise it starts with the 28 pairs of bits 4..31.
C9_Characteristics ==
    call.fn = "GetCharacteristics"
        => /\ ~call.res.fault
           /\ IF CharacteristicsBit(3) = 1
              THEN /\ Len(call.res.val) = ExtensionPairs
                   /\ \A k \in 1..Len(call.res.val) : \A i \in 4..31 :
                         call.res.val[k].name # BitLabel[i]
              ELSE /\ Len(call.res.val) = 28 + ExtensionPairs
                   /\ StartsWithBits4To31

\* Bit 3 clear, PCI (bit 7) set and ISA (bit 4) clear, both extension bytes.
C9_Witness ==
    /\ call.fn = "GetCharacteristics"
    /\ CharacteristicsBit(3) = 0
    /\ CharacteristicsBit(7) = 1
    /\ call.res.val[4] = [name |-> "PCI", supported |-> TRUE]
    /\ call.res.val[1] = [name |-> "ISA", supported |-> FALSE]
    /\ Len(call.res.val) = 39

\* C10: the UUID bytes b0..b15 at 0x08..0x17.
UUIDByte(i) == table.data[8 + i + 1]

\* The order the claim gives for the version.
ClaimedOrder ==
    IF (table.major * 256) + table.minor >= 518
    THEN <<3, 2, 1, 0, 5, 4, 7, 6, 8, 9, 10, 11, 12, 13, 14, 15>>
    ELSE <<0, 1, 2, 3, 4, 5, 6, 7, 8, 9, 10, 11, 12, 13, 14, 15>>

HexValue(c) == CHOOSE v \in 0..15 : Digits[v + 1] = c

\* Where the j-th byte (1..16) starts in the 36-character text: groups of
\* 4, 2, 2, 2 and 6 bytes with a dash between them.
PairStart(j) ==
    (2 * j) - 1 + (IF j > 4 THEN 1 ELSE 0) + (IF j > 6 THEN 1 ELSE 0)
                + (IF j > 8 THEN 1 ELSE 0) + (IF j > 10 THEN 1 ELSE 0)

UUIDAsClaimed ==
    IF (\A i \in 0..15 : UUIDByte(i) = 0) \/ (\A i \in 0..15 : UUIDByte(i) = 255)
    THEN call.res.val = <<>>
    ELSE /\ Len(call.res.val) = 36
         /\ \A d \in {9, 14, 19, 24} : call.res.val[d] = "-"
         /\ \A j \in 1..16 :
               (16 * HexValue(call.res.val[PairStart(j)]))
                   + HexValue(call.res.val[PairStart(j) + 1])
               = UUIDByte(ClaimedOrder[j])

\* C10 as claimed: for every declared length that covers the 16 UUID bytes
\* (0x08..0x17, so a length of 0x18 or more).
C10_UUIDAsClaimed ==
    (call.fn = "GetUUID" /\ DeclaredLength >= 24) => UUIDAsClaimed

\* C10 (amended): for a declared length of 0x19 or more, which is what
\* GetUUID requires (the UUID and the wake-up byte behind it).
C10_UUID ==
    (call.fn = "GetUUID" /\ DeclaredLength >= 25)
        => (~call.res.fault /\ UUIDAsClaimed)

\* Version 2.6, bytes 01 02 ... 10: "04030201-0605-0807-090A-0B0C0D0E0F10".
C10_Witness ==
    /\ call.fn = "GetUUID"
    /\ table.major = 2
    /\ table.minor = 6
    /\ \A i \in 0..15 : UUIDByte(i) = i + 1
    /\ call.res.val = <<"0", "4", "0", "3", "0", "2", "0", "1", "-",
                        "0", "6", "0", "5", "-", "0", "8", "0", "7", "-",
                        "0", "9", "0", "A", "-",
                        "0", "B", "0", "C", "0", "D", "0", "E", "0", "F", "1", "0">>

----------------------------------------------------------------------------
(* The two walks, one iteration of the outer loop at a time.  A step takes *)
(* the loop's variables to their values after the loop test and, when the  *)
(* test passes, one run of the body: state is "loop" when the body ran to  *)
(* its end, "returned" when the loop was left, "crashed" when the body     *)
(* read unmapped memory.                                                    *)

MaxPieces == 3

\* The byte runs blobs are put together from: complete structures, headers
\* whose terminator is missing, a declared length of 0, a declared length
\* that reaches past the next bytes, and single bytes.
Pieces ==
    {<<1, 4, 0, 0, 0, 0>>,
     <<127, 4, 0, 0, 0, 0>>,
     <<0, 4, 0, 0>>,
     <<2, 0, 1, 0>>,
     <<2, 9, 0, 0>>,
     <<65>>,
     <<0>>}

RECURSIVE BlobsOf(_)
BlobsOf(n) ==
    IF n = 0 THEN {<<>>}
    ELSE LET shorter == BlobsOf(n - 1)
         IN  shorter \cup {b \o p : b \in shorter, p \in Pieces}

WalkTypes == TableTypes \cup {TABLE_TYPE_BASEBOARD}

GetTableCountStep_NoSkip(m, end, pos, count) ==
    IF ~(pos < end) THEN [state |-> "returned", pos |-> pos, n |-> count]
    ELSE IF pos + 1 >= Len(m) THEN [state |-> "crashed", pos |-> pos, n |-> count]
    ELSE LET sc == CountScan(m, end, pos + m[pos + 2])
         IN  IF sc.fault THEN [state |-> "crashed", pos |-> pos, n |-> count]
             ELSE [state |-> "loop", pos |-> sc.pos, n |-> count + 1]

\* while (pos < end) { pos += pos[1]; <scan>; pos += 2; ++count; }
GetTableCountStep(m, end, pos, count) ==
    IF ~(pos < end) THEN [state |-> "returned", pos |-> pos, n |-> count]
    ELSE IF pos + 1 >= Len(m) THEN [state |-> "crashed", pos |-> pos, n |-> count]
    ELSE LET sc == CountScan(m, end, pos + m[pos + 2])
         IN  IF sc.fault THEN [state |-> "crashed", pos |-> pos, n |-> count]
             ELSE [state |-> "loop", pos |-> sc.pos + 2, n |-> count + 1]

GetTableStep_BoundOffByOne(m, len, table_count, type, pos, table_index) ==
    LET left(found) == [state |-> "returned", pos |-> pos, n |-> table_index,
                        found |-> found]
    IN  IF ~(table_index + 1 < table_count /\ pos + 4 <= len) THEN left(FALSE)
        ELSE IF pos + 1 >= Len(m)
        THEN [state |-> "crashed", pos |-> pos, n |-> table_index, found |-> FALSE]
        ELSE LET visit == VisitTable(m, type, pos)
             IN  IF visit = "match" THEN left(TRUE)
                 ELSE IF visit \in {"malformed", "end"} THEN left(FALSE)
                 ELSE LET next == NextScan(m, len, pos + m[pos + 2])
                      IN  IF next < 0
                          THEN [state |-> "crashed", pos |-> pos,
                                n |-> table_index, found |-> FALSE]
                          ELSE [state |-> "loop", pos |-> next + 2,
                                n |-> table_index + 1, found |-> FALSE]

\* while (table_index < table_count_ && pos + 4 <= end) { <body> }; a found
\* structure is at offset pos.
GetTableStep(m, len, table_count, type, pos, table_index) ==
    LET left(found) == [state |-> "returned", pos |-> pos, n |-> table_index,
                        found |-> found]
    IN  IF ~(table_index < table_count /\ pos + 4 <= len) THEN left(FALSE)
        ELSE IF pos + 1 >= Len(m)
        THEN [state |-> "crashed", pos |-> pos, n |-> table_index, found |-> FALSE]
        ELSE LET visit == VisitTable(m, type, pos)
             IN  IF visit = "match" THEN left(TRUE)
                 ELSE IF visit \in {"malformed", "end"} THEN left(FALSE)
                 ELSE LET next == NextScan(m, len, pos + m[pos + 2])
                      IN  IF next < 0
                          THEN [state |-> "crashed", pos |-> pos,
                                n |-> table_index, found |-> FALSE]
                          ELSE [state |-> "loop", pos |-> next + 2,
                                n |-> table_index + 1, found |-> FALSE]

\* A blob in memory and the region length its header announces: the exact
\* length, or one that ends up to two bytes before the memory does.
InitWalk ==
    /\ structs = <<>>
    /\ mem \in BlobsOf(MaxPieces)
    /\ phase = "build"
    /\ has_data = TRUE
    /\ length \in {Len(mem) - c : c \in {x \in 0..2 : x <= Len(mem)}}
    /\ data_size = HeaderSize + length
    /\ smbios = NoSMBios
    /\ lookup = NoLookup
    /\ table = NoTable
    /\ call = NoCall
    /\ iter = NoIter
    /\ ServiceInit

\* GetTableCount up to its loop: count = 0, pos = table_data.
StartGetTableCount ==
    /\ iter = NoIter
    /\ iter' = [NoIter EXCEPT !.fn = "count", !.state = "loop"]
    /\ UNCHANGED <<walk_vars, view_vars, service_vars>>

CountIteration ==
    /\ iter.fn = "count"
    /\ iter.state = "loop"
    /\ LET s == GetTableCountStep(mem, length, iter.pos, iter.n)
       IN  iter' = [iter EXCEPT !.state = s.state, !.pos = s.pos, !.n = s.n]
    /\ UNCHANGED <<walk_vars, view_vars, service_vars>>

\* GetTable up to its loop, on the object of a Create that counted at least
\* one structure (Create returns nullptr otherwise): table_count_ is the
\* count, pos = start, table_index = 0.
StartGetTable(type) ==
    /\ iter.fn = "count"
    /\ iter.state = "returned"
    /\ iter.n # 0
    /\ iter' = [NoIter EXCEPT !.fn = "locate", !.state = "loop", !.type = type,
                              !.table_count = iter.n]
    /\ UNCHANGED <<walk_vars, view_vars, service_vars>>

TableIteration ==
    /\ iter.fn = "locate"
    /\ iter.state = "loop"
    /\ LET s == GetTableStep(mem, length, iter.table_count, iter.type,
                             iter.pos, iter.n)
       IN  iter' = [iter EXCEPT !.state = s.state, !.pos = s.pos, !.n = s.n,
                                !.found = s.found]
    /\ UNCHANGED <<walk_vars, view_vars, service_vars>>

NextWalk ==
    \/ StartGetTableCount
    \/ CountIteration
    \/ \E type \in WalkTypes : StartGetTable(type)
    \/ TableIteration

\* A walk is a loop of one running thread: an iteration that can run does.
SpecWalk ==
    InitWalk /\ [][NextWalk]_vars /\ WF_vars(CountIteration) /\ WF_vars(TableIteration)

----------------------------------------------------------------------------
(* The Windows service (service_impl_win.cc).  Three threads: "main" runs  *)
(* serviceMain, "ctrl" is the dispatcher thread (ServiceHandler::run) on   *)
(* which the service control manager calls serviceControlHandler, "app"    *)
(* runs ServiceImpl::exec and, inside the event loop, customEvent.  A      *)
(* function is the sequence of its instructions; a thread runs one         *)
(* instruction per step.                                                    *)

MaxControls == 2

Instr(op, arg) == [op |-> op, arg |-> arg]

\* The handshake of a service-thread callback with the application:
\* event_lock.lock(); event_processed = false; post...Event();
\* while (!event_processed) event_condition.wait(&event_lock);
\* event_lock.unlock();
PostAndWait(type) ==
    <<Instr("lock", ""), Instr("reset", ""), Instr("post", type),
      Instr("wait", ""), Instr("unlock", "")>>

serviceMain ==
    <<Instr("release", "create_app_start_semaphore"),
      Instr("acquire", "create_app_end_semaphore"),
      Instr("register", ""),
      Instr("setStatus", "SERVICE_START_PENDING")>>
        \o PostAndWait("Start")
        \o <<Instr("setStatus", "SERVICE_RUNNING")>>

ControlCodes ==
    {"SERVICE_CONTROL_INTERROGATE", "SERVICE_CONTROL_SESSIONCHANGE",
     "SERVICE_CONTROL_SHUTDOWN", "SERVICE_CONTROL_STOP", "SERVICE_CONTROL_PAUSE"}

serviceControlHandler(control_code) ==
    CASE control_code = "SERVICE_CONTROL_INTERROGATE" ->
            <<Instr("return", "NO_ERROR")>>
      [] control_code = "SERVICE_CONTROL_SESSIONCHANGE" ->
            PostAndWait("SessionChange") \o <<Instr("return", "NO_ERROR")>>
      [] control_code = "SERVICE_CONTROL_SHUTDOWN" ->
            PostAndWait("Stop") \o <<Instr("return", "NO_ERROR")>>
      [] control_code = "SERVICE_CONTROL_STOP" ->
            <<Instr("setStatus", "SERVICE_STOP_PENDING")>>
                \o PostAndWait("Stop") \o <<Instr("return", "NO_ERROR")>>
      [] OTHER -> <<Instr("return", "ERROR_CALL_NOT_IMPLEMENTED")>>

\* Set the flag under the lock, then notify the waiting thread.
EventProcessed ==
    <<Instr("lock", ""), Instr("set", ""), Instr("unlock", ""), Instr("notify", "")>>

customEvent_FlagFirst(type) ==
    CASE type = "Start" -> EventProcessed \o <<Instr("callback", "start")>>
      [] type = "Stop" ->
            EventProcessed \o <<Instr("callback", "stop"), Instr("quit", "")>>
      [] type = "SessionChange" ->
            EventProcessed \o <<Instr("callback", "sessionChange")>>
      [] OTHER -> <<>>

customEvent(type) ==
    CASE type = "Start" -> <<Instr("callback", "start")>> \o EventProcessed
      [] type = "Stop" ->
            <<Instr("callback", "stop"), Instr("quit", "")>> \o EventProcessed
      [] type = "SessionChange" ->
            <<Instr("callback", "sessionChange")>> \o EventProcessed
      [] OTHER -> <<>>

\* ServiceHandler::setStatus: dwControlsAccepted for the status reported.
ControlsAccepted(status) ==
    IF status = "SERVICE_RUNNING"
    THEN {"SERVICE_CONTROL_STOP", "SERVICE_CONTROL_SHUTDOWN",
          "SERVICE_CONTROL_SESSIONCHANGE"}
    ELSE {}

\* The thread has returned from the function it was running.
Returned(t) == pc[t] > Len(prog[t])

\* The next instruction of thread t is op, and t is not inside a wait.
At(t, op) == ~Returned(t) /\ blocked[t] = "no" /\ prog[t][pc[t]].op = op

Arg(t) == prog[t][pc[t]].arg

Advance(t) == pc' = [pc EXCEPT ![t] = @ + 1]

Return(t) == pc' = [pc EXCEPT ![t] = Len(prog[t]) + 1]

\* ServiceHandler::run: StartServiceCtrlDispatcherW has the service control
\* manager call serviceMain on a new thread, once.
CallServiceMain ==
    /\ prog["main"] = <<>>
    /\ prog' = [prog EXCEPT !["main"] = serviceMain]
    /\ UNCHANGED <<walk_vars, view_vars, iter_vars, pc, blocked, event, event_lock,
                   event_processed, posted, create_app_start_semaphore,
                   create_app_end_semaphore, status_handle_, status_, app, quit,
                   done, controls>>

\* The dispatcher thread calls the registered handler with a control code,
\* one call at a time: a code the reported status accepts, or one that needs
\* no acceptance.
DeliverControl(control_code) ==
    /\ status_handle_
    /\ status_ # "SERVICE_STOPPED"
    /\ Returned("ctrl")
    /\ controls < MaxControls
    /\ \/ control_code \in ControlsAccepted(status_)
       \/ control_code \in {"SERVICE_CONTROL_INTERROGATE", "SERVICE_CONTROL_PAUSE"}
    /\ prog' = [prog EXCEPT !["ctrl"] = serviceControlHandler(control_code)]
    /\ pc' = [pc EXCEPT !["ctrl"] = 1]
    /\ event' = [event EXCEPT !["ctrl"] = NoEvent]
    /\ controls' = controls + 1
    /\ UNCHANGED <<walk_vars, view_vars, iter_vars, blocked, event_lock,
                   event_processed, posted, create_app_start_semaphore,
                   create_app_end_semaphore, status_handle_, status_, app, quit,
                   done>>

\* create_app_start_semaphore.release()
Release(t) ==
    /\ At(t, "release")
    /\ create_app_start_semaphore' = create_app_start_semaphore + 1
    /\ Advance(t)
    /\ UNCHANGED <<walk_vars, view_vars, iter_vars, prog, blocked, event, event_lock,
                   event_processed, posted, create_app_end_semaphore,
                   status_handle_, status_, app, quit, done, controls>>

\* create_app_end_semaphore.acquire()
Acquire(t) ==
    /\ At(t, "acquire")
    /\ create_app_end_semaphore > 0
    /\ create_app_end_semaphore' = create_app_end_semaphore - 1
    /\ Advance(t)
    /\ UNCHANGED <<walk_vars, view_vars, iter_vars, prog, blocked, event, event_lock,
                   event_processed, posted, create_app_start_semaphore,
                   status_handle_, status_, app, quit, done, controls>>

\* RegisterServiceCtrlHandlerExW; serviceMain returns when it fails.
Register(t, ok) ==
    /\ At(t, "register")
    /\ status_handle_' = ok
    /\ IF ok THEN Advance(t) ELSE Return(t)
    /\ UNCHANGED <<walk_vars, view_vars, iter_vars, prog, blocked, event, event_lock,
                   event_processed, posted, create_app_start_semaphore,
                   create_app_end_semaphore, status_, app, quit, done, controls>>

SetStatus(t) ==
    /\ At(t, "setStatus")
    /\ status_' = Arg(t)
    /\ Advance(t)
    /\ UNCHANGED <<walk_vars, view_vars, iter_vars, prog, blocked, event, event_lock,
                   event_processed, posted, create_app_start_semaphore,
                   create_app_end_semaphore, status_handle_, app, quit, done,
                   controls>>

Lock(t) ==
    /\ At(t, "lock")
    /\ event_lock = "free"
    /\ event_lock' = t
    /\ Advance(t)
    /\ UNCHANGED <<walk_vars, view_vars, iter_vars, prog, blocked, event,
                   event_processed, posted, create_app_start_semaphore,
                   create_app_end_semaphore, status_handle_, status_, app, quit,
                   done, controls>>

Unlock(t) ==
    /\ At(t, "unlock")
    /\ event_lock' = "free"
    /\ Advance(t)
    /\ UNCHANGED <<walk_vars, view_vars, iter_vars, prog, blocked, event,
                   event_processed, posted, create_app_start_semaphore,
                   create_app_end_semaphore, status_handle_, status_, app, quit,
                   done, controls>>

\* event_processed = false (op "reset") or event_processed = true (op "set")
SetFlag(t, op) ==
    /\ At(t, op)
    /\ event_processed' = (op = "set")
    /\ Advance(t)
    /\ UNCHANGED <<walk_vars, view_vars, iter_vars, prog, blocked, event, event_lock,
                   posted, create_app_start_semaphore, create_app_end_semaphore,
                   status_handle_, status_, app, quit, done, controls>>

\* QCoreApplication::postEvent: the Start event is event 0, the event of the
\* n-th control delivered is event n.
Post(t) ==
    /\ At(t, "post")
    /\ LET e == [type |-> Arg(t), id |-> IF t = "main" THEN 0 ELSE controls]
       IN  /\ posted' = Append(posted, e)
           /\ event' = [event EXCEPT ![t] = e]
    /\ Advance(t)
    /\ UNCHANGED <<walk_vars, view_vars, iter_vars, prog, blocked, event_lock,
                   event_processed, create_app_start_semaphore,
                   create_app_end_semaphore, status_handle_, status_, app, quit,
                   done, controls>>

\* while (!event_processed) event_condition.wait(&event_lock): the loop test
\* with the lock held; the wait releases the lock.
Wait(t) ==
    /\ At(t, "wait")
    /\ IF event_processed
       THEN Advance(t) /\ UNCHANGED <<blocked, event_lock>>
       ELSE /\ blocked' = [blocked EXCEPT ![t] = "waiting"]
            /\ event_lock' = "free"
            /\ UNCHANGED pc
    /\ UNCHANGED <<walk_vars, view_vars, iter_vars, prog, event, event_processed,
                   posted, create_app_start_semaphore, create_app_end_semaphore,
                   status_handle_, status_, app, quit, done, controls>>

\* event_condition.notify_one(): wakes one waiting thread, if there is one.
Notify(t) ==
    /\ At(t, "notify")
    /\ IF \E w \in Threads : blocked[w] = "waiting"
       THEN \E w \in Threads :
                /\ blocked[w] = "waiting"
                /\ blocked' = [blocked EXCEPT ![w] = "woken"]
       ELSE UNCHANGED blocked
    /\ Advance(t)
    /\ UNCHANGED <<walk_vars, view_vars, iter_vars, prog, event, event_lock,
                   event_processed, posted, create_app_start_semaphore,
                   create_app_end_semaphore, status_handle_, status_, app, quit,
                   done, controls>>

\* A wait may end without a notify; the loop around it tests the flag again.
SpuriousWake(t) ==
    /\ blocked[t] = "waiting"
    /\ blocked' = [blocked EXCEPT ![t] = "woken"]
    /\ UNCHANGED <<walk_vars, view_vars, iter_vars, prog, pc, event, event_lock,
                   event_processed, posted, create_app_start_semaphore,
                   create_app_end_semaphore, status_handle_, status_, app, quit,
                   done, controls>>

\* The woken thread takes event_lock again before wait returns.
Reacquire(t) ==
    /\ blocked[t] = "woken"
    /\ event_lock = "free"
    /\ event_lock' = t
    /\ blocked' = [blocked EXCEPT ![t] = "no"]
    /\ UNCHANGED <<walk_vars, view_vars, iter_vars, prog, pc, event, event_processed,
                   posted, create_app_start_semaphore, create_app_end_semaphore,
                   status_handle_, status_, app, quit, done, controls>>

\* ServiceImpl::start / stop / sessionChange runs and returns.
Callback(t) ==
    /\ At(t, "callback")
    /\ done' = done \cup {event[t]}
    /\ Advance(t)
    /\ UNCHANGED <<walk_vars, view_vars, iter_vars, prog, blocked, event, event_lock,
                   event_processed, posted, create_app_start_semaphore,
                   create_app_end_semaphore, status_handle_, status_, app, quit,
                   controls>>

\* QCoreApplication::instance()->quit()
Quit(t) ==
    /\ At(t, "quit")
    /\ quit' = TRUE
    /\ Advance(t)
    /\ UNCHANGED <<walk_vars, view_vars, iter_vars, prog, blocked, event, event_lock,
                   event_processed, posted, create_app_start_semaphore,
                   create_app_end_semaphore, status_handle_, status_, app, done,
                   controls>>

ReturnValue(t) ==
    /\ At(t, "return")
    /\ Return(t)
    /\ UNCHANGED <<walk_vars, view_vars, iter_vars, prog, blocked, event, event_lock,
                   event_processed, posted, create_app_start_semaphore,
                   create_app_end_semaphore, status_handle_, status_, app, quit,
                   done, controls>>

\* ServiceImpl::exec: create_app_start_semaphore.tryAcquire(1, 20000); exec
\* returns 1 when serviceMain was not called in time.
TryAcquire ==
    /\ app = "tryAcquire"
    /\ IF create_app_start_semaphore > 0
       THEN /\ create_app_start_semaphore' = create_app_start_semaphore - 1
            /\ app' = "createApplication"
       ELSE /\ app' = "returned"
            /\ UNCHANGED create_app_start_semaphore
    /\ UNCHANGED <<walk_vars, view_vars, iter_vars, prog, pc, blocked, event,
                   event_lock, event_processed, posted, create_app_end_semaphore,
                   status_handle_, status_, quit, done, controls>>

\* createApplication, the ServiceEventHandler, create_app_end_semaphore.release()
CreateApplication ==
    /\ app = "createApplication"
    /\ create_app_end_semaphore' = create_app_end_semaphore + 1
    /\ app' = "executeApplication"
    /\ UNCHANGED <<walk_vars, view_vars, iter_vars, prog, pc, blocked, event,
                   event_lock, event_processed, posted, create_app_start_semaphore,
                   status_handle_, status_, quit, done, controls>>

\* The event loop hands the oldest posted event to customEvent.  Events that
\* were posted before the loop notices quit are still handed over.
Dispatch ==
    /\ app = "executeApplication"
    /\ Returned("app")
    /\ posted # <<>>
    /\ prog' = [prog EXCEPT !["app"] = customEvent(Head(posted).type)]
    /\ pc' = [pc EXCEPT !["app"] = 1]
    /\ event' = [event EXCEPT !["app"] = Head(posted)]
    /\ posted' = Tail(posted)
    /\ UNCHANGED <<walk_vars, view_vars, iter_vars, blocked, event_lock,
                   event_processed, create_app_start_semaphore,
                   create_app_end_semaphore, status_handle_, status_, app, quit,
                   done, controls>>

\* executeApplication returns after quit; exec reports SERVICE_STOPPED.
ExitLoop ==
    /\ app = "executeApplication"
    /\ Returned("app")
    /\ quit
    /\ app' = "stopped"
    /\ status_' = "SERVICE_STOPPED"
    /\ UNCHANGED <<walk_vars, view_vars, iter_vars, prog, pc, blocked, event,
                   event_lock, event_processed, posted, create_app_start_semaphore,
                   create_app_end_semaphore, status_handle_, quit, done, controls>>

NextService ==
    \/ CallServiceMain
    \/ \E control_code \in ControlCodes : DeliverControl(control_code)
    \/ TryAcquire
    \/ CreateApplication
    \/ Dispatch
    \/ ExitLoop
    \/ \E t \in Threads :
          \/ Release(t)
          \/ Acquire(t)
          \/ \E ok \in BOOLEAN : Register(t, ok)
          \/ SetStatus(t)
          \/ Lock(t)
          \/ Unlock(t)
          \/ \E op \in {"reset", "set"} : SetFlag(t, op)
          \/ Post(t)
          \/ Wait(t)
          \/ Notify(t)
          \/ SpuriousWake(t)
          \/ Reacquire(t)
          \/ Callback(t)
          \/ Quit(t)
          \/ ReturnValue(t)

SpecService == Init /\ [][NextService]_vars

\* C11: the baseboard feature byte at 0x09.
FeatureByte == table.data[9 + 1]

FeatureLabel ==
    (0 :> "Board is a hosting board")
    @@ (1 :> "Board requires at least one daughter board")
    @@ (2 :> "Board is removable")
    @@ (3 :> "Board is replaceable")
    @@ (4 :> "Board is hot swappable")

\* Exactly five pairs, for bits 0..4 in ascending order.
FivePairs ==
    /\ Len(call.res.val) = 5
    /\ \A i \in 0..4 :
          call.res.val[i + 1] =
              [name |-> FeatureLabel[i],
               supported |-> ((FeatureByte \div (2 ^ i)) % 2 = 1)]

\* C11 as claimed: the list is empty when the declared length does not cover
\* the feature byte or the byte is zero, and has the five pairs for every
\* other feature byte.
C11_FeaturesAsClaimed ==
    call.fn = "GetFeatures"
        => IF DeclaredLength < 10 \/ FeatureByte = 0
           THEN call.res.val = <<>>
           ELSE FivePairs

\* C11 (amended): the list is empty when the declared length does not cover
\* the feature byte or bits 0..4 of the byte are all zero, and has the five
\* pairs whenever one of bits 0..4 is set.
C11_Features ==
    call.fn = "GetFeatures"
        => /\ ~call.res.fault
           /\ IF DeclaredLength < 10 \/ FeatureByte % 32 = 0
              THEN call.res.val = <<>>
              ELSE FivePairs

\* Feature byte 0x05: hosting board and removable.
C11_Witness ==
    /\ call.fn = "GetFeatures"
    /\ DeclaredLength >= 10
    /\ FeatureByte = 5
    /\ Len(call.res.val) = 5
    /\ call.res.val[1].supported
    /\ ~call.res.val[2].supported
    /\ call.res.val[3].supported

\* C14: on a well-formed blob GetTable emits neither consistency warning,
\* whatever the type looked up and whether or not it is found.
C14_NoWarningsWellFormed ==
    (Looked /\ WellFormedInput)
        => /\ ~lookup.res.count_warning
           /\ ~lookup.res.size_warning

\* C14 for the lookups that find their structure: GetTable returns from
\* inside the loop, before the warnings.
C14_NoWarningsWhenFound ==
    (Looked /\ WellFormedInput /\ lookup.res.found)
        => /\ ~lookup.res.count_warning
           /\ ~lookup.res.size_warning

\* Every lookup on a well-formed blob that finds nothing ends at the end
\* marker and emits the size warning.
C14_SizeWarningWhenNotFound ==
    (Looked /\ WellFormedInput /\ ~lookup.res.found) => lookup.res.size_warning

\* The walk of GetTable without the table_count_ bound: a bound no walk over
\* m can reach, every iteration moving the cursor by six bytes or more.
UnboundedGetTable(m, len, type) == GetTable(m, len, Len(m) + 1, type)

WalkEnded == iter.fn = "locate" /\ iter.state \in {"returned", "crashed"}

\* C12: with table_count_ the count GetTableCount computed over the same
\* region, GetTable returns the same offset, or nothing, as the same walk
\* without the table_count_ bound (and crashes exactly when it does).
C12_BoundNeverCuts ==
    WalkEnded
        => LET free == UnboundedGetTable(mem, length, iter.type)
           IN  /\ (iter.state = "crashed") = free.fault
               /\ iter.found = free.found
               /\ iter.found => iter.pos = free.offset

\* The structure returned is the last one counted, after the first.
C12_Witness ==
    /\ WalkEnded
    /\ iter.found
    /\ iter.pos > 0
    /\ iter.n + 1 = iter.table_count

\* An iteration of either walk that ran its body to the end.
IterationRan == iter.state = "loop" /\ iter'.state = "loop" /\ iter'.fn = iter.fn

\* C13: every iteration of the outer loop of GetTableCount and of GetTable
\* moves the cursor strictly forward, and every walk ends, on malformed
\* blobs too.
C13_WalkTerminates ==
    /\ [][IterationRan => iter'.pos > iter.pos]_vars
    /\ (iter.state = "loop") ~> (iter.state \in {"returned", "crashed"})

\* GetTableCount returned after several iterations over a blob whose first
\* structure declares length 0 and that does not end in a double null.
C13_Witness ==
    /\ iter.fn = "count"
    /\ iter.state = "returned"
    /\ iter.n >= 2
    /\ mem[2] = 0
    /\ mem[Len(mem)] # 0
    /\ iter.pos >= length

\* The thread posted an event and has left the wait loop that follows.
PassedWait(t) ==
    /\ event[t] # NoEvent
    /\ \E i \in 1..Len(prog[t]) : prog[t][i].op = "wait" /\ pc[t] > i

StartEvent == [type |-> "Start", id |-> 0]

\* C15: a service-thread callback that posted an event is past its wait on
\* event_processed only when the ServiceImpl callback for that event has
\* returned, and SERVICE_RUNNING is reported only when ServiceImpl::start
\* has returned.
C15_Handshake ==
    /\ \A t \in {"main", "ctrl"} : PassedWait(t) => event[t] \in done
    /\ status_ = "SERVICE_RUNNING" => StartEvent \in done

\* serviceMain reported SERVICE_RUNNING and serviceControlHandler is past its
\* wait for a SessionChange event.
C15_Witness ==
    /\ status_ = "SERVICE_RUNNING"
    /\ PassedWait("main")
    /\ PassedWait("ctrl")
    /\ event["ctrl"].type = "SessionChange"

====
